---- MODULE Spec2Model ----
(***************************************************************************)
(* ConfocalStepperLogic (src/logic/confocal_stepper_logic.py): the         *)
(* start / stop / continue control of a stepper scan, the per-line         *)
(* iteration _step_line with _step_and_count, and the hardware it drives   *)
(* (stepping device, finite counter).                                      *)
(*                                                                         *)
(* A handler is an operator from the state record it starts in to the set  *)
(* of state records it can end in, one per combination of hardware         *)
(* replies.  A Python exception is an outcome: the handler stops at the    *)
(* raising line, the assignments made before it stay (field exc).          *)
(*                                                                         *)
(* The source reads the configured value of an axis with a call,           *)
(* self._step_freq(axis) and self.step_amplitude(axis) (lines 195, 213,    *)
(* 284, 519), where both attributes hold a dict or a number: Python raises *)
(* TypeError there.  The variable subscript_reading is FALSE in Spec, the  *)
(* code as written.  SpecSubscript sets it TRUE and evaluates those four   *)
(* expressions as the lookups self._step_freq[axis]; it is used only to    *)
(* show what the lines behind the TypeError do.                            *)
(*                                                                         *)
(* What the module takes from outside src/: the devices answer each call   *)
(* with a status in {0, -1} or a value read; get_stepper_axes_use returns  *)
(* a dict over Axes (line 255 calls .keys() on it); get_fixed_counts       *)
(* returns (counts, bins) with counts a list, so that result[0] == [-1] is *)
(* the failure test, and no count is -1; the close_* calls close.  The     *)
(* three signals on_activate connects exist.  stop_stepper and the other   *)
(* public methods may be called from the host's thread between the top     *)
(* checks of a _step_line iteration and its step-and-count (stop_stepper   *)
(* takes self.threadlock for that reason), hence the two steps of          *)
(* _step_line; each step is atomic.                                        *)
(*                                                                         *)
(* Specifications: Spec, SpecFair (the scan control as written, the host   *)
(* may emit the line signal); SpecSubscript, SpecSubscriptFair (the lookup *)
(* reading, only the module emits); SpecConfig (setters and getters next   *)
(* to start_stepper); SpecMove (move_to_position, with the tracked         *)
(* position absent as on_activate leaves it or assigned by the host);      *)
(* SpecMoveSubscript (move_to_position called during a scan, lookup        *)
(* reading, tracked position assigned by the host);                        *)
(* SpecThreads (start_stepper in two steps, lock and the rest, so that a   *)
(* stop_stepper of the host's thread can fall between them).               *)
(***************************************************************************)
EXTENDS Integers, Sequences, FiniteSets, TLC

\* ------------------------------------------------------------- bounds
MaxPending == 2
MaxLines == 3
MaxPos == 2

\* --------------------------------------------------- program constants
StepsScanLine == 50

Axes == {"x", "y", "z"}
FreqVals == {1, 2}
AmpVals == {1, 2}
\* what the device can answer to a status call / a read
Status == {0, -1}
FreqReads == FreqVals \cup {-1}
AmpReads == AmpVals \cup {-1}
\* _scan_axes: the value on_activate assigns ("xz"), and whitespace-separated
\* pairs as line 254 expects them (one naming an axis the hardware lacks)
ScanAxesChoices == {"xz", "x z", "x q"}
\* set_clock_frequency(clock_frequency)
ClockVals == {1, 2}
\* move_to_position(x, y, z): a position in steps, or None
NoTarget == -1
Targets == (0..MaxPos) \cup {NoTarget}

VARIABLES
  state,            \* getState(): "idle" | "locked"
  stopRequested,
  step_counter,     \* _step_counter
  scan_axes,        \* _scan_axes
  inverted_scan,    \* _inverted_scan
  first_scan_axis,  \* _first_scan_axis ("unset": attribute not assigned yet)
  second_scan_axis,
  step_freq,        \* _step_freq: axis -> configured frequency
  step_amplitude,   \* step_amplitude: axis -> configured amplitude
  axis_mode,        \* _axis_mode: axis -> "ground" | "stepping"
  subscript_reading,
  cnt_state,        \* counting device: "idle" | "locked"
  stp_state,        \* stepping device: "idle" | "locked"
  clock_up,         \* finite counter clock set up and not closed
  counter_up,       \* finite counter set up and not closed
  counter_running,  \* finite counter started and not stopped
  dev_mode,         \* the mode the stepping device last accepted, per axis
  pending,          \* queued signal_step_lines_next emissions (directions)
  pc,               \* "idle" | "line": a _step_line iteration past its top checks
  line_dir,         \* direction argument of the iteration in progress
  op,               \* the handler that ran last
  ret,              \* what it returned: "0" | "-1" | "None" | "raise"
  cmds,             \* the device commands it issued, in order
  emitted,          \* the directions it emitted on signal_step_lines_next
  neg_reply,        \* a device call of it reported a negative value
  sc_ret,           \* what _step_and_count returned in the last line iteration:
                    \* "none" (not called) | "-1" | "counts" | "raise"
  step_freq_kind,   \* what _step_freq holds: "dict" | "number" (line 141 assigns
                    \* the number read; step_freq then maps every axis to it)
  step_amplitude_kind,
  clock_frequency,  \* _clock_frequency (0: attribute not assigned yet)
  current_defined,  \* _current_x, _current_y, _current_z exist (the module
                    \* never creates them, the host must)
  current_pos,      \* _current_x, _current_y, _current_z
  target,           \* the x, y, z the last move_to_position was called with
  start_pc          \* "idle" | "locked": a start_stepper past line 247

vars == <<state, stopRequested, step_counter, scan_axes, inverted_scan,
          first_scan_axis, second_scan_axis, step_freq, step_amplitude,
          axis_mode, subscript_reading, cnt_state, stp_state, clock_up,
          counter_up, counter_running, dev_mode, pending, pc, line_dir,
          op, ret, cmds, emitted, neg_reply, sc_ret, step_freq_kind,
          step_amplitude_kind, clock_frequency, current_defined, current_pos,
          target, start_pc>>

\* ------------------------------------------------------ state records
Cur ==
  [state |-> state, stopRequested |-> stopRequested,
   step_counter |-> step_counter, scan_axes |-> scan_axes,
   inverted_scan |-> inverted_scan, first_scan_axis |-> first_scan_axis,
   second_scan_axis |-> second_scan_axis, step_freq |-> step_freq,
   step_amplitude |-> step_amplitude, axis_mode |-> axis_mode,
   subscript_reading |-> subscript_reading, cnt_state |-> cnt_state,
   stp_state |-> stp_state, clock_up |-> clock_up, counter_up |-> counter_up,
   counter_running |-> counter_running, dev_mode |-> dev_mode,
   pending |-> pending, pc |-> pc, line_dir |-> line_dir,
   op |-> op, ret |-> ret, cmds |-> cmds, emitted |-> emitted,
   neg_reply |-> neg_reply, sc_ret |-> sc_ret,
   step_freq_kind |-> step_freq_kind,
   step_amplitude_kind |-> step_amplitude_kind,
   clock_frequency |-> clock_frequency, current_defined |-> current_defined,
   current_pos |-> current_pos, target |-> target, start_pc |-> start_pc,
   exc |-> FALSE, val |-> 0]

Apply(s) ==
  /\ state' = s.state
  /\ stopRequested' = s.stopRequested
  /\ step_counter' = s.step_counter
  /\ scan_axes' = s.scan_axes
  /\ inverted_scan' = s.inverted_scan
  /\ first_scan_axis' = s.first_scan_axis
  /\ second_scan_axis' = s.second_scan_axis
  /\ step_freq' = s.step_freq
  /\ step_amplitude' = s.step_amplitude
  /\ axis_mode' = s.axis_mode
  /\ subscript_reading' = s.subscript_reading
  /\ cnt_state' = s.cnt_state
  /\ stp_state' = s.stp_state
  /\ clock_up' = s.clock_up
  /\ counter_up' = s.counter_up
  /\ counter_running' = s.counter_running
  /\ dev_mode' = s.dev_mode
  /\ pending' = s.pending
  /\ pc' = s.pc
  /\ line_dir' = s.line_dir
  /\ op' = s.op
  /\ ret' = IF s.exc THEN "raise" ELSE s.ret
  /\ cmds' = s.cmds
  /\ emitted' = s.emitted
  /\ neg_reply' = s.neg_reply
  /\ sc_ret' = s.sc_ret
  /\ step_freq_kind' = s.step_freq_kind
  /\ step_amplitude_kind' = s.step_amplitude_kind
  /\ clock_frequency' = s.clock_frequency
  /\ current_defined' = s.current_defined
  /\ current_pos' = s.current_pos
  /\ target' = s.target
  /\ start_pc' = s.start_pc

\* a handler starts: nothing issued, nothing emitted, nothing returned yet
Begin(s, name) ==
  [s EXCEPT !.op = name, !.ret = "None", !.cmds = <<>>, !.emitted = <<>>,
            !.neg_reply = FALSE, !.exc = FALSE, !.val = 0]

Raise(s) == [s EXCEPT !.exc = TRUE]
Return(s, r) == [s EXCEPT !.ret = r]

\* one call to a device, with its reply n (a status or a value read)
Command(dev, name, axis, n, dirn, wellformed) ==
  [dev |-> dev, cmd |-> name, axis |-> axis, n |-> n, dirn |-> dirn,
   wellformed |-> wellformed, reply |-> 0]
Issue(s, c, reply) ==
  [s EXCEPT !.cmds = Append(@, [c EXCEPT !.reply = reply]), !.val = reply,
            !.neg_reply = @ \/ reply < 0]

\* ------------------------------------------- the module state machine
\* GenericLogic.lock / unlock / getState are not in src/: an exclusive
\* "locked" flag, taken only from "idle" and released only from "locked";
\* a call in the wrong state raises and changes nothing.
FsmLock(st) == [st |-> IF st = "idle" THEN "locked" ELSE st, raised |-> st # "idle"]
FsmUnlock(st) == [st |-> IF st = "locked" THEN "idle" ELSE st, raised |-> st # "locked"]

ModLock(s) ==
  LET r == FsmLock(s.state) IN IF r.raised THEN Raise(s) ELSE [s EXCEPT !.state = r.st]
ModUnlock(s) ==
  LET r == FsmUnlock(s.state) IN IF r.raised THEN Raise(s) ELSE [s EXCEPT !.state = r.st]
CntLock(s) ==
  LET r == FsmLock(s.cnt_state) IN IF r.raised THEN Raise(s) ELSE [s EXCEPT !.cnt_state = r.st]
CntUnlock(s) ==
  LET r == FsmUnlock(s.cnt_state) IN IF r.raised THEN Raise(s) ELSE [s EXCEPT !.cnt_state = r.st]
StpLock(s) ==
  LET r == FsmLock(s.stp_state) IN IF r.raised THEN Raise(s) ELSE [s EXCEPT !.stp_state = r.st]
StpUnlock(s) ==
  LET r == FsmUnlock(s.stp_state) IN IF r.raised THEN Raise(s) ELSE [s EXCEPT !.stp_state = r.st]

\* ----------------------------------------------- configured values
\* self._step_freq(axis), self.step_amplitude(axis): a call of a dict or a
\* number (TypeError) as written; under subscript_reading the lookup, which
\* raises TypeError as well once the attribute holds a number
EvalStepFreq(s, axis) ==
  IF s.subscript_reading /\ s.step_freq_kind = "dict"
  THEN [s EXCEPT !.val = s.step_freq[axis]] ELSE Raise(s)
EvalStepAmplitude(s, axis) ==
  IF s.subscript_reading /\ s.step_amplitude_kind = "dict"
  THEN [s EXCEPT !.val = s.step_amplitude[axis]] ELSE Raise(s)

\* self._stepping_device.set_step_freq(self, axis, self._step_freq): the
\* logic object and the whole mapping are passed where line 132 passes
\* (axis, frequency); the device may raise or answer a status
MalformedReplies == {"raise", "0", "-1"}
MalformedSet(s, name, axis) ==
  { LET c == Command("stepper", name, axis, 0, TRUE, FALSE)
    IN CASE r = "raise" -> Raise([s EXCEPT !.cmds = Append(@, c)])
         [] r = "0" -> Issue(s, c, 0)
         [] r = "-1" -> Issue(s, c, -1)
    : r \in MalformedReplies }

\* _check_freq(axis): val is the status returned
check_freq(s, axis) ==
  UNION { LET s1 == Issue(s, Command("stepper", "get_step_freq", axis, 0, TRUE, TRUE), f)
              s2 == EvalStepFreq(s1, axis)
          IN IF s2.exc THEN {s2}
             ELSE IF f # s2.val
                  THEN IF s2.state = "locked"
                       THEN {[s2 EXCEPT !.val = -1]}
                       ELSE MalformedSet(s2, "set_step_freq", axis)
                  ELSE {[s2 EXCEPT !.val = 0]}
        : f \in FreqReads }

\* _check_amplitude(axis)
check_amplitude(s, axis) ==
  UNION { LET s1 == Issue(s, Command("stepper", "get_step_amplitude", axis, 0, TRUE, TRUE), a)
              s2 == EvalStepAmplitude(s1, axis)
          IN IF s2.exc THEN {s2}
             ELSE IF a # s2.val
                  THEN IF s2.state = "locked"
                       THEN {[s2 EXCEPT !.val = -1]}
                       ELSE MalformedSet(s2, "set_step_amplitude", axis)
                  ELSE {[s2 EXCEPT !.val = 0]}
        : a \in AmpReads }

\* freq_status = _check_freq(first); amp_status = _check_amplitude(second);
\* val < 0 iff "freq_status < 0 or amp_status < 0"
CheckPair(s) ==
  UNION { IF t.exc THEN {t}
          ELSE { IF u.exc THEN u
                 ELSE [u EXCEPT !.val = IF t.val < 0 \/ u.val < 0 THEN -1 ELSE 0]
               : u \in check_amplitude(t, t.second_scan_axis) }
        : t \in check_freq(s, s.first_scan_axis) }

\* the check blocks left out: every outcome passes
checks_skipped(s) == {s}

\* the two identical check blocks of start_stepper and continue_stepper:
\* outcomes that returned -1 (module unlocked), raised, or passed (ret "None")
CheckTwice(s) ==
  LET Block(t) == { IF u.exc THEN u
                    ELSE IF u.val < 0 THEN Return(ModUnlock(u), "-1") ELSE u
                  : u \in CheckPair(t) }
  IN UNION { IF t.exc \/ t.ret = "-1" THEN {t} ELSE Block(t) : t \in Block(s) }

\* str.split() of the _scan_axes values
SplitAxes(str) ==
  CASE str = "xz" -> <<"xz">>
    [] str = "x z" -> <<"x", "z">>
    [] str = "x q" -> <<"x", "q">>

\* set_mode_stepping / set_mode_ground: the tag is written first, then the
\* device is asked; val is the device's status
set_mode(s, axis, mode) ==
  { LET s1 == [s EXCEPT !.axis_mode[axis] = mode]
        s2 == Issue(s1, Command("stepper", "set_axis_mode_" \o mode, axis, 0, TRUE, TRUE), st)
    IN IF st < 0 THEN s2 ELSE [s2 EXCEPT !.dev_mode[axis] = mode]
    : st \in Status }
set_mode_stepping(s, axis) == set_mode(s, axis, "stepping")
set_mode_ground(s, axis) == set_mode(s, axis, "ground")

Emit(s, d) == [s EXCEPT !.pending = Append(@, d), !.emitted = Append(@, d)]

\* start_stepper, lines 281-311: counting device, clock, counter, axis
\* modes, stepping device lock, first line iteration
StartArm(s) ==
  LET s1 == CntLock(s)
      s2 == IF s1.exc THEN s1 ELSE EvalStepFreq(s1, s1.first_scan_axis)
      Modes(t) ==
        UNION { UNION { IF u.val < 0 \/ v.val < 0
                        THEN UNION { { Return(ModUnlock(h), "-1")
                                       : h \in set_mode_ground(g, g.second_scan_axis) }
                                     : g \in set_mode_ground(v, v.first_scan_axis) }
                        ELSE LET w == StpLock(v)
                             IN IF w.exc THEN {w} ELSE {Return(Emit(w, TRUE), "0")}
                      : v \in set_mode_stepping(u, u.second_scan_axis) }
              : u \in set_mode_stepping(t, t.first_scan_axis) }
      Counter(t) ==
        UNION { LET u == Issue(t, Command("counter", "set_up_finite_counter", "", StepsScanLine, TRUE, TRUE), sc)
                IN IF sc < 0
                   THEN LET c == [u EXCEPT !.cmds = Append(@, Command("counter", "close_finite_counter_clock", "", 0, TRUE, TRUE)),
                                           !.clock_up = FALSE]
                        IN {Return(ModUnlock(CntUnlock(c)), "-1")}
                   ELSE Modes([u EXCEPT !.counter_up = TRUE])
              : sc \in Status }
      Clock(t) ==
        UNION { LET u == Issue(t, Command("counter", "set_up_finite_counter_clock", "", t.val, TRUE, TRUE), ck)
                IN IF ck < 0
                   THEN {Return(ModUnlock(CntUnlock(u)), "-1")}
                   ELSE Counter([u EXCEPT !.clock_up = TRUE])
              : ck \in Status }
  IN IF s2.exc THEN {s2} ELSE Clock(s2)

\* start_stepper without the test of line 255: the pair is taken as it is
start_unvalidated(s1) ==
  LET ab == SplitAxes(s1.scan_axes)
  IN IF s1.exc THEN {s1}
     ELSE IF Len(ab) # 2 THEN {Raise(s1)}
     ELSE UNION { IF t.exc \/ t.ret = "-1" THEN {t} ELSE StartArm(t)
                : t \in CheckTwice([s1 EXCEPT !.first_scan_axis = ab[2],
                                               !.second_scan_axis = ab[1]]) }

\* start_stepper, lines 254-311, s1 the state after line 247
start_locked(s1) ==
  LET ab == SplitAxes(s1.scan_axes)
  IN IF s1.exc THEN {s1}
     ELSE IF Len(ab) # 2 THEN {Raise(s1)}
     ELSE IF ~(ab[1] \in Axes /\ ab[2] \in Axes) THEN {Return(ModUnlock(s1), "-1")}
     ELSE LET s2 == IF s1.inverted_scan
                    THEN [s1 EXCEPT !.first_scan_axis = ab[1], !.second_scan_axis = ab[2]]
                    ELSE [s1 EXCEPT !.first_scan_axis = ab[2], !.second_scan_axis = ab[1]]
          IN UNION { IF t.exc \/ t.ret = "-1" THEN {t} ELSE StartArm(t)
                   : t \in CheckTwice(s2) }

\* start_stepper with a lock() that takes the flag whatever its state
start_stepper_relock(s) ==
  start_locked([Begin(s, "start_stepper") EXCEPT !.step_counter = 0, !.state = "locked"])

\* start_stepper: the line counter is reset, then the module is locked
start_stepper(s) ==
  start_locked(ModLock([Begin(s, "start_stepper") EXCEPT !.step_counter = 0]))

\* kill_counter: close counter and clock, unlock the counting device; an
\* exception of the unlock is caught (lines 560-563)
kill_counter(s) ==
  LET s1 == [s EXCEPT !.cmds = Append(@, Command("counter", "close_finite_counter", "", 0, TRUE, TRUE)),
                      !.counter_up = FALSE, !.counter_running = FALSE]
      s2 == [s1 EXCEPT !.cmds = Append(@, Command("counter", "close_finite_counter_clock", "", 0, TRUE, TRUE)),
                       !.clock_up = FALSE]
  IN [s2 EXCEPT !.cnt_state = FsmUnlock(s2.cnt_state).st]

\* stop_stepper as a true cancellation: it tears the scan down itself
stop_stepper_cancel(s) ==
  LET s0 == Begin(s, "stop_stepper")
      s1 == IF s0.state = "locked"
            THEN [kill_counter(s0) EXCEPT !.state = "idle", !.stp_state = "idle"]
            ELSE s0
  IN {Return(s1, "0")}

\* stop_stepper (signal_stop_stepping has no slot in this module)
stop_stepper(s) ==
  LET s0 == Begin(s, "stop_stepper")
      s1 == IF s0.state = "locked" THEN [s0 EXCEPT !.stopRequested = TRUE] ELSE s0
  IN {Return(s1, "0")}

\* continue_stepper: self._first_scan_axis is read at line 332; before the
\* first start_stepper reached line 257 the attribute does not exist
continue_stepper(s) ==
  LET s0 == Begin(s, "continue_stepper")
      s1 == ModLock(s0)
  IN IF s1.exc THEN {s1}
     ELSE IF s1.first_scan_axis = "unset" THEN {Raise(s1)}
     ELSE CheckTwice(s1)

\* ------------------------------------------------------- the line loop
\* get_fixed_counts: result[0] == [-1] (failed), or result[1] bins of counts
ReadBacks ==
  {[failed |-> TRUE, bins |-> 0],
   [failed |-> FALSE, bins |-> StepsScanLine],
   [failed |-> FALSE, bins |-> StepsScanLine - 1]}

\* _step_and_count(axis, direction, steps): val = -1 (error value) or 0 (the counts)
step_and_count(s, axis, direction, steps) ==
  LET Read(t) ==
        UNION { UNION { LET u == Issue(t, Command("counter", "get_fixed_counts", "", rb.bins, TRUE, TRUE),
                                       IF rb.failed THEN -1 ELSE 0)
                            v == Issue(u, Command("counter", "stop_finite_counter", "", 0, TRUE, TRUE), a)
                            w == IF a < 0 THEN v ELSE [v EXCEPT !.counter_running = FALSE]
                        IN IF rb.failed THEN {[w EXCEPT !.val = -1]}
                           ELSE IF rb.bins # steps THEN {[w EXCEPT !.val = -1]}
                           ELSE IF a < 0 THEN {[w EXCEPT !.val = -1]}
                           ELSE {[w EXCEPT !.val = 0]}
                      : a \in Status }
              : rb \in ReadBacks }
      Start(t) ==
        UNION { LET u == Issue(t, Command("counter", "start_finite_counter", "", 0, TRUE, TRUE), st)
                IN IF st < 0 THEN {[u EXCEPT !.val = -1]}
                   ELSE LET v == EvalStepFreq([u EXCEPT !.counter_running = TRUE], axis)
                        IN IF v.exc THEN {v} ELSE Read(v)
              : st \in Status }
  IN UNION { LET t == Issue(s, Command("stepper", "move_attocube", axis, steps, direction, TRUE), mv)
             IN IF mv < 0 THEN {[t EXCEPT !.val = -1]} ELSE Start(t)
           : mv \in Status }

\* _step_line whose teardown leaves stopRequested set
step_line_top_keepflag(s, d) ==
  LET s0 == [Begin(s, "_step_line") EXCEPT !.sc_ret = "none"]
  IN IF s0.state # "locked" THEN {s0}
     ELSE IF s0.stopRequested
          THEN LET s2 == ModUnlock(kill_counter(s0))
               IN {IF s2.exc THEN s2 ELSE StpUnlock(s2)}
          ELSE {[s0 EXCEPT !.pc = "line", !.line_dir = d, !.ret = "running"]}

\* _step_line without the test of line 456: an unlocked module is treated
\* like a locked one
step_line_top_unguarded(s, d) ==
  LET s0 == [Begin(s, "_step_line") EXCEPT !.sc_ret = "none"]
  IN IF s0.stopRequested
     THEN LET s1 == kill_counter(s0)
              s2 == ModUnlock([s1 EXCEPT !.stopRequested = FALSE])
          IN {IF s2.exc THEN s2 ELSE StpUnlock(s2)}
     ELSE {[s0 EXCEPT !.pc = "line", !.line_dir = d, !.ret = "running"]}

\* _step_line, lines 455-480: the queued call is taken; not locked: nothing;
\* stop requested: tear down; otherwise the line is stepped (pc = "line")
step_line_top(s, d) ==
  LET s0 == [Begin(s, "_step_line") EXCEPT !.sc_ret = "none"]
  IN IF s0.state # "locked" THEN {s0}
     ELSE IF s0.stopRequested
          THEN LET s1 == kill_counter(s0)
                   s2 == ModUnlock([s1 EXCEPT !.stopRequested = FALSE])
               IN {IF s2.exc THEN s2 ELSE StpUnlock(s2)}
          ELSE {[s0 EXCEPT !.pc = "line", !.line_dir = d, !.ret = "running"]}

\* _step_line, lines 482-498
step_line_body(s) ==
  LET s0 == [Begin(s, "_step_line") EXCEPT !.pc = "idle", !.sc_ret = "none"]
      direction == s.line_dir
      After(t) ==
        IF t.val = -1
        THEN \* new_counts[0] with new_counts the int -1: TypeError
             {Raise([t EXCEPT !.sc_ret = "-1"])}
        ELSE UNION { LET u == [t EXCEPT !.step_counter = @ + 1, !.sc_ret = "counts"]
                         v == Issue(u, Command("stepper", "move_attocube", u.second_scan_axis, 1, TRUE, TRUE), mv)
                     IN \* self.signal_step_lines_next(direction): the signal is called, not emitted
                        {Raise(v)}
                   : mv \in Status }
  IN IF s0.first_scan_axis = "unset" THEN {Raise(s0)}
     ELSE UNION { IF t.exc THEN {[t EXCEPT !.sc_ret = "raise"]} ELSE After(t)
                : t \in step_and_count(s0, s0.first_scan_axis, direction, StepsScanLine) }

\* ------------------------------------------------ setters and getters
\* the status a device call returned, as the handler returns it
StatusStr(n) == IF n < 0 THEN "-1" ELSE "0"

\* set_clock_frequency(clock_frequency)
set_clock_frequency(s, clock_freq) ==
  LET s0 == Begin(s, "set_clock_frequency")
      s1 == [s0 EXCEPT !.clock_frequency = clock_freq]
  IN IF s1.state = "locked" THEN {Return(s1, "-1")} ELSE {Return(s1, "0")}

\* set_stepper_frequency(axis, frequency): the item assignment of line 127
\* raises TypeError when _step_freq holds a number
set_stepper_frequency(s, axis, frequency) ==
  LET s0 == Begin(s, "set_stepper_frequency")
      s1 == [s0 EXCEPT !.step_freq[axis] = frequency]
  IN IF s0.step_freq_kind # "dict" THEN {Raise(s0)}
     ELSE IF s1.state = "locked" THEN {Return(s1, "-1")}
     ELSE { Return(Issue(s1, Command("stepper", "set_step_freq", axis, frequency, TRUE, TRUE), st),
                   StatusStr(st))
          : st \in Status }

\* set_stepper_amplitude(axis, amplitude)
set_stepper_amplitude(s, axis, amplitude) ==
  LET s0 == Begin(s, "set_stepper_amplitude")
      s1 == [s0 EXCEPT !.step_amplitude[axis] = amplitude]
  IN IF s0.step_amplitude_kind # "dict" THEN {Raise(s0)}
     ELSE IF s1.state = "locked" THEN {Return(s1, "-1")}
     ELSE { Return(Issue(s1, Command("stepper", "set_step_amplitude", axis, amplitude, TRUE, TRUE), st),
                   StatusStr(st))
          : st \in Status }

\* get_stepper_frequency(axis): returns the attribute _step_freq when the
\* read failed ("attribute"), else assigns the number read to _step_freq and
\* returns it ("value")
get_stepper_frequency(s, axis) ==
  { LET s1 == Issue(Begin(s, "get_stepper_frequency"),
                    Command("stepper", "get_step_freq", axis, 0, TRUE, TRUE), f)
    IN IF f = -1 THEN Return(s1, "attribute")
       ELSE Return([s1 EXCEPT !.step_freq = [a \in Axes |-> f],
                              !.step_freq_kind = "number"], "value")
    : f \in FreqReads }

\* get_stepper_amplitude(axis)
get_stepper_amplitude(s, axis) ==
  { LET s1 == Issue(Begin(s, "get_stepper_amplitude"),
                    Command("stepper", "get_step_amplitude", axis, 0, TRUE, TRUE), v)
    IN IF v = -1 THEN Return(s1, "attribute")
       ELSE Return([s1 EXCEPT !.step_amplitude = [a \in Axes |-> v],
                              !.step_amplitude_kind = "number"], "value")
    : v \in AmpReads }

\* ----------------------------------------------------- move_to_position
\* one of the three blocks of move_to_position (lines 360-382, 384-406,
\* 408-430): reading _current_<axis> raises AttributeError when the host
\* never assigned it; both checks are called, the amplitude status is tested
\* first; the tracked position is assigned whatever the move returned; the
\* z block (last) returns the move's status
move_axis(s, axis, t, last) ==
  LET Move(a) ==
        { LET d == t - a.current_pos[axis]
              m == Issue(a, Command("stepper", "move_attocube", axis,
                                    IF d < 0 THEN -d ELSE d, ~(d < 0), TRUE), mv)
              m2 == [m EXCEPT !.current_pos[axis] = t]
          IN IF last THEN Return(m2, StatusStr(mv))
             ELSE IF mv = -1 THEN Return(m2, "-1") ELSE m2
          : mv \in Status }
  IN IF t = NoTarget THEN {s}
     ELSE IF ~s.current_defined THEN {Raise(s)}
     ELSE IF t = s.current_pos[axis] THEN {s}
     ELSE UNION { IF f.exc THEN {f}
                  ELSE UNION { IF a.exc THEN {a}
                               ELSE IF a.val < 0 THEN {Return(a, "-1")}
                               ELSE IF f.val < 0 THEN {Return(a, "-1")}
                               ELSE Move(a)
                             : a \in check_amplitude(f, axis) }
                : f \in check_freq(s, axis) }

\* move_to_position(x, y, z)
move_to_position(s, x, y, z) ==
  LET s0 == [Begin(s, "move_to_position") EXCEPT !.target = [a \in Axes |->
                 CASE a = "x" -> x [] a = "y" -> y [] a = "z" -> z]]
      Going(t) == ~t.exc /\ t.ret = "None"
      Z(t) == { IF Going(u) THEN Return(u, "0") ELSE u : u \in move_axis(t, "z", z, TRUE) }
      Y(t) == UNION { IF Going(u) THEN Z(u) ELSE {u} : u \in move_axis(t, "y", y, FALSE) }
  IN UNION { IF Going(u) THEN Y(u) ELSE {u} : u \in move_axis(s0, "x", x, FALSE) }

\* ------------------------------------------------------------- actions
\* start_stepper, continue_stepper and _step_line are slots run by the
\* module's own thread (queued connections, lines 93-95): none of them begins
\* while a start_stepper is between its lock() and its return (start_pc)
StartStepper == start_pc = "idle" /\ \E t \in start_stepper(Cur) : Apply(t)
StopStepper == \E t \in stop_stepper(Cur) : Apply(t)
ContinueStepper == start_pc = "idle" /\ \E t \in continue_stepper(Cur) : Apply(t)

\* start_stepper in two steps, for callers in another thread (stop_stepper is
\* called by the host and takes self.threadlock, which start_stepper does not
\* hold): lines 246-247, then lines 254-311
StartStepperLock ==
  /\ start_pc = "idle"
  /\ LET s == ModLock([Begin(Cur, "start_stepper") EXCEPT !.step_counter = 0])
     IN Apply(IF s.exc THEN s ELSE [s EXCEPT !.start_pc = "locked", !.ret = "running"])
StartStepperRest ==
  /\ start_pc = "locked"
  /\ \E t \in start_locked([Begin(Cur, "start_stepper") EXCEPT !.start_pc = "idle"]) : Apply(t)

\* delivery of a queued signal_step_lines_next to _step_line (line 93)
StepLineTop ==
  /\ start_pc = "idle"
  /\ pc = "idle"
  /\ pending # <<>>
  /\ \E t \in step_line_top([Cur EXCEPT !.pending = Tail(@)], Head(pending)) : Apply(t)

StepLineBody ==
  /\ start_pc = "idle"
  /\ pc = "line"
  /\ step_counter < MaxLines
  /\ \E t \in step_line_body(Cur) : Apply(t)

\* the host emits signal_step_lines_next(d): the signal is a public member,
\* connected to _step_line like signal_start_stepping is to start_stepper
HostEmit ==
  /\ Len(pending) < MaxPending
  /\ \E d \in BOOLEAN : Apply([Begin(Cur, "host_emit") EXCEPT !.pending = Append(@, d)])

\* on_activate, with the attributes it leaves to the host
Activated ==
  /\ state = "idle"
  /\ stopRequested = FALSE
  /\ step_counter = 0
  /\ scan_axes \in ScanAxesChoices
  /\ inverted_scan = FALSE
  /\ first_scan_axis = "unset"
  /\ second_scan_axis = "unset"
  /\ \E f \in FreqVals : step_freq = [a \in Axes |-> f]
  /\ \E v \in AmpVals : step_amplitude = [a \in Axes |-> v]
  /\ step_freq_kind = "dict"
  /\ step_amplitude_kind = "dict"
  /\ clock_frequency = 0
  /\ axis_mode = [a \in Axes |-> "ground"]
  /\ cnt_state = "idle"
  /\ stp_state = "idle"
  /\ clock_up = FALSE
  /\ counter_up = FALSE
  /\ counter_running = FALSE
  /\ dev_mode = [a \in Axes |-> "ground"]
  /\ pending = <<>>
  /\ pc = "idle"
  /\ start_pc = "idle"
  /\ line_dir = TRUE
  /\ target = [a \in Axes |-> NoTarget]
  /\ op = "on_activate"
  /\ ret = "None"
  /\ cmds = <<>>
  /\ emitted = <<>>
  /\ neg_reply = FALSE
  /\ sc_ret = "none"

\* the tracked position as on_activate leaves it: the attributes do not exist
Untracked ==
  /\ current_defined = FALSE
  /\ current_pos = [a \in Axes |-> 0]

Init == Activated /\ Untracked /\ subscript_reading = FALSE

InitSubscript == Activated /\ Untracked /\ subscript_reading = TRUE

SetClockFrequency ==
  \E c \in ClockVals : \E t \in set_clock_frequency(Cur, c) : Apply(t)
SetStepperFrequency ==
  \E a \in Axes : \E f \in FreqVals : \E t \in set_stepper_frequency(Cur, a, f) : Apply(t)
SetStepperAmplitude ==
  \E a \in Axes : \E v \in AmpVals : \E t \in set_stepper_amplitude(Cur, a, v) : Apply(t)
GetStepperFrequency ==
  \E a \in Axes : \E t \in get_stepper_frequency(Cur, a) : Apply(t)
GetStepperAmplitude ==
  \E a \in Axes : \E t \in get_stepper_amplitude(Cur, a) : Apply(t)

MoveToPosition ==
  \E x \in Targets : \E y \in Targets : \E z \in Targets :
    \E t \in move_to_position(Cur, x, y, z) : Apply(t)

\* move_to_position(x=p), move_to_position(y=p) or move_to_position(z=p),
\* called while the module is locked
MoveDuringScan ==
  /\ state = "locked"
  /\ \E a \in Axes : \E p \in 0..MaxPos :
       \E t \in move_to_position(Cur, IF a = "x" THEN p ELSE NoTarget,
                                       IF a = "y" THEN p ELSE NoTarget,
                                       IF a = "z" THEN p ELSE NoTarget) : Apply(t)

\* the host assigned a tracked position before the first move
Tracked ==
  /\ current_defined = TRUE
  /\ \E p \in 0..MaxPos : current_pos = [a \in Axes |-> p]

InitMove == Activated /\ (Untracked \/ Tracked) /\ subscript_reading = FALSE

InitMoveSubscript == Activated /\ Tracked /\ subscript_reading = TRUE

Next ==
  \/ StartStepper
  \/ StopStepper
  \/ ContinueStepper
  \/ StepLineTop
  \/ StepLineBody

NextOpen == Next \/ HostEmit

\* the code as written; the host may emit the line signal
Spec == Init /\ [][NextOpen]_vars

\* the code as written, every queued _step_line call eventually delivered
\* (Qt's event loop) and every line begun eventually run to its end
SpecFair == Spec /\ WF_vars(StepLineTop) /\ WF_vars(StepLineBody)

\* the four call expressions read as lookups; only the module emits
SpecSubscript == InitSubscript /\ [][Next]_vars

\* the lookup reading with the same delivery of queued iterations
SpecSubscriptFair == SpecSubscript /\ WF_vars(StepLineTop) /\ WF_vars(StepLineBody)

\* the configuration interface next to start_stepper, code as written
NextConfig ==
  \/ SetClockFrequency
  \/ SetStepperFrequency
  \/ SetStepperAmplitude
  \/ GetStepperFrequency
  \/ GetStepperAmplitude
  \/ StartStepper

SpecConfig == Init /\ [][NextConfig]_vars

\* move_to_position next to start_stepper, code as written
NextMove ==
  \/ MoveToPosition
  \/ StartStepper

SpecMove == InitMove /\ [][NextMove]_vars

\* the lookup reading, the tracked position assigned by the host: the host
\* calls move_to_position, one axis named, while the module is locked
NextMoveDuringScan ==
  \/ MoveDuringScan
  \/ StartStepper

SpecMoveSubscript == InitMoveSubscript /\ [][NextMoveDuringScan]_vars

\* the code as written with stop_stepper called from the host's thread
\* while start_stepper runs
NextThreads ==
  \/ StartStepperLock
  \/ StartStepperRest
  \/ StopStepper
  \/ ContinueStepper
  \/ StepLineTop
  \/ StepLineBody
  \/ HostEmit

SpecThreads == Init /\ [][NextThreads]_vars

\* ------------------------------------------------------------- claims
HasCmd(cs, name) == \E i \in 1..Len(cs) : cs[i].cmd = name
CountCmd(cs, name) == Cardinality({i \in 1..Len(cs) : cs[i].cmd = name})
CounterCmds(cs) == {i \in 1..Len(cs) : cs[i].dev = "counter"}
\* line loops pending (queued) or running (past the top checks)
LineLoops == Len(pending) + (IF pc = "line" THEN 1 ELSE 0)

\* C1: whenever a hardware call made by start_stepper reported a negative
\* value, start_stepper returned -1, the module is not locked and no line
\* iteration was signalled.
C1_NegativeReplyAborts ==
  (op = "start_stepper" /\ neg_reply)
    => (ret = "-1" /\ state # "locked" /\ emitted = <<>>)

C5_StopEventuallyUnlocks ==
  (state = "locked" /\ stopRequested) ~> (state # "locked" /\ ~stopRequested)

\* C6: a _step_line iteration that finds the module locked and stopRequested
\* set leaves counter and clock closed, the counting device, the module and
\* the stepping device unlocked and stopRequested False; it commands no step
\* and no count and signals no further iteration.
C6_Teardown ==
  [][ (op' = "_step_line" /\ pc = "idle" /\ state = "locked" /\ stopRequested)
        => /\ ~counter_up' /\ ~clock_up' /\ ~counter_running'
           /\ cnt_state' = "idle"
           /\ ~stopRequested'
           /\ state' = "idle"
           /\ stp_state' = "idle"
           /\ ~HasCmd(cmds', "move_attocube")
           /\ ~HasCmd(cmds', "start_finite_counter")
           /\ emitted' = <<>>
           /\ pending' = Tail(pending)
           /\ pc' = "idle" ]_vars

\* C6 witness: an iteration has torn a locked scan down
C6_TornDown ==
  op = "_step_line" /\ state = "idle" /\ HasCmd(cmds, "close_finite_counter")
    /\ HasCmd(cmds, "close_finite_counter_clock")

\* C7: when start_stepper is called on an idle module and the device reports
\* a frequency (amplitude) for a checked axis that differs from the
\* configured one, the device is set to the configured value for that axis
\* and the finite counter is set up.
C7_StartReconciles ==
  [][ (state = "idle" /\ op' = "start_stepper")
        => \A i \in 1..Len(cmds') :
             /\ (cmds'[i].cmd = "get_step_freq" /\ cmds'[i].reply >= 0
                   /\ cmds'[i].reply # step_freq[cmds'[i].axis])
                  => /\ \E j \in 1..Len(cmds') :
                          /\ cmds'[j].cmd = "set_step_freq" /\ cmds'[j].wellformed
                          /\ cmds'[j].axis = cmds'[i].axis
                          /\ cmds'[j].n = step_freq[cmds'[i].axis]
                     /\ HasCmd(cmds', "set_up_finite_counter")
             /\ (cmds'[i].cmd = "get_step_amplitude" /\ cmds'[i].reply >= 0
                   /\ cmds'[i].reply # step_amplitude[cmds'[i].axis])
                  => /\ \E j \in 1..Len(cmds') :
                          /\ cmds'[j].cmd = "set_step_amplitude" /\ cmds'[j].wellformed
                          /\ cmds'[j].axis = cmds'[i].axis
                          /\ cmds'[j].n = step_amplitude[cmds'[i].axis]
                     /\ HasCmd(cmds', "set_up_finite_counter") ]_vars

MoveFailed(cs) == cs[1].reply < 0
StartFailed(cs) == \E i \in 1..Len(cs) : cs[i].cmd = "start_finite_counter" /\ cs[i].reply < 0
ReadFailed(cs) == \E i \in 1..Len(cs) : cs[i].cmd = "get_fixed_counts" /\ cs[i].reply < 0
BinsDiffer(cs) == \E i \in 1..Len(cs) : cs[i].cmd = "get_fixed_counts" /\ cs[i].n # StepsScanLine
StopFailed(cs) == \E i \in 1..Len(cs) : cs[i].cmd = "stop_finite_counter" /\ cs[i].reply < 0
StepFailure(cs) ==
  MoveFailed(cs) \/ StartFailed(cs) \/ ReadFailed(cs) \/ BinsDiffer(cs) \/ StopFailed(cs)

\* C9: whenever _step_and_count was called, it returned -1 if the move, the
\* counter start, the read-back, the number of bins or the counter stop
\* failed, and the counts otherwise; after a failed move the counter was not
\* started.
C9_ErrorValueOrCounts ==
  (op = "_step_line" /\ HasCmd(cmds, "move_attocube"))
    => /\ sc_ret = (IF StepFailure(cmds) THEN "-1" ELSE "counts")
       /\ MoveFailed(cmds) => ~HasCmd(cmds, "start_finite_counter")

\* C10: when the step-and-count of a line of a scan returned -1, the line
\* counter is unchanged, the secondary axis is not stepped and one line
\* iteration is signalled with the direction unchanged; the iteration
\* delivered next steps no line and leaves the module, the counting device
\* and the stepping device unlocked.
C10_FailedLineAborts ==
  [][ /\ (op' = "_step_line" /\ pc = "line" /\ state = "locked" /\ sc_ret' = "-1")
           => /\ step_counter' = step_counter
              /\ CountCmd(cmds', "move_attocube") = 1
              /\ emitted' = <<line_dir>>
      /\ (op' = "_step_line" /\ pc = "idle" /\ state = "locked" /\ sc_ret = "-1")
           => /\ pc' = "idle"
              /\ state' # "locked"
              /\ cnt_state' = "idle"
              /\ stp_state' = "idle" ]_vars

\* the one-step advance of the secondary axis that ends a line reported a
\* negative value
AdvanceFailed(cs) ==
  \E i \in 1..Len(cs) :
    cs[i].cmd = "move_attocube" /\ cs[i].n = 1 /\ cs[i].axis = second_scan_axis
      /\ cs[i].reply < 0

C12_SettersGuarded ==
  [][ /\ op' = "set_stepper_frequency"
           => IF state = "locked" THEN ret' = "-1" /\ cmds' = <<>>
              ELSE /\ Len(cmds') = 1
                   /\ cmds'[1].cmd = "set_step_freq" /\ cmds'[1].wellformed
                   /\ cmds'[1].n = step_freq'[cmds'[1].axis]
                   /\ ret' = StatusStr(cmds'[1].reply)
      /\ op' = "set_stepper_amplitude"
           => IF state = "locked" THEN ret' = "-1" /\ cmds' = <<>>
              ELSE /\ Len(cmds') = 1
                   /\ cmds'[1].cmd = "set_step_amplitude" /\ cmds'[1].wellformed
                   /\ cmds'[1].n = step_amplitude'[cmds'[1].axis]
                   /\ ret' = StatusStr(cmds'[1].reply)
      /\ op' = "set_clock_frequency"
           => /\ cmds' = <<>>
              /\ ret' = (IF state = "locked" THEN "-1" ELSE "0") ]_vars

\* C13: a setter call that returns -1 on a locked module leaves the
\* configured step frequencies, step amplitudes and clock frequency as they
\* were.
C13_RejectedSetterChangesNothing ==
  [][ ( /\ op' \in {"set_stepper_frequency", "set_stepper_amplitude", "set_clock_frequency"}
        /\ state = "locked" /\ ret' = "-1" )
        => UNCHANGED <<step_freq, step_amplitude, clock_frequency>> ]_vars

\* the axes the move_to_position call of this step has to move, the moves
\* it commanded, and the order of the blocks
NeedsMove(a) == target'[a] # NoTarget /\ target'[a] # current_pos[a]
MovesOf(cs, a) == {i \in 1..Len(cs) : cs[i].cmd = "move_attocube" /\ cs[i].axis = a}
AxisRank(a) == CASE a = "x" -> 1 [] a = "y" -> 2 [] a = "z" -> 3

\* C14: move_to_position returns 0 or -1; it commands moves only for axes
\* whose target is given and differs from the tracked position, in the order
\* x, y, z, each exactly once with |target - tracked| steps, outward iff the
\* target is larger, and tracks the target; when the module is not locked and
\* no device call reported a negative value every such axis is moved; after a
\* move that reported failure it returns -1 and commands no further move;
\* when no axis needs to move it commands none and returns 0.
C14_MoveToPosition ==
  [][ op' = "move_to_position"
        => /\ ret' \in {"0", "-1"}
           /\ \A a \in Axes : \A i \in MovesOf(cmds', a) :
                /\ NeedsMove(a)
                /\ MovesOf(cmds', a) = {i}
                /\ cmds'[i].n = (IF target'[a] > current_pos[a]
                                 THEN target'[a] - current_pos[a]
                                 ELSE current_pos[a] - target'[a])
                /\ cmds'[i].dirn = (target'[a] > current_pos[a])
                /\ current_pos'[a] = target'[a]
                /\ \A b \in Axes : \A j \in MovesOf(cmds', b) :
                     i < j => AxisRank(a) < AxisRank(b)
                /\ cmds'[i].reply < 0
                     => ret' = "-1" /\ \A j \in (i+1)..Len(cmds') : cmds'[j].cmd # "move_attocube"
           /\ (state = "idle" /\ ~neg_reply')
                => \A a \in Axes : NeedsMove(a) => MovesOf(cmds', a) # {}
           /\ (\A a \in Axes : ~NeedsMove(a))
                => (\A a \in Axes : MovesOf(cmds', a) = {}) /\ ret' = "0" ]_vars

\* the stage of start_stepper a device command belongs to (5: the clean-up
\* of a failed stage)
Stage(c) ==
  CASE c.cmd \in {"get_step_freq", "get_step_amplitude"} -> 1
    [] c.cmd = "set_up_finite_counter_clock" -> 2
    [] c.cmd = "set_up_finite_counter" -> 3
    [] c.cmd = "set_axis_mode_stepping" -> 4
    [] OTHER -> 5
\* the command succeeded: a status that is not negative, a read that gave
\* the configured value
Succeeded(c) ==
  CASE c.cmd = "get_step_freq" -> c.reply = step_freq[c.axis]
    [] c.cmd = "get_step_amplitude" -> c.reply = step_amplitude[c.axis]
    [] OTHER -> c.reply >= 0

\* the device commands of the last call come in the order of the stages, a
\* later stage only after the axes were validated, all four checks were made
\* and every command of an earlier stage succeeded
StagesInOrder ==
  /\ \A i, j \in 1..Len(cmds) :
       i < j => /\ Stage(cmds[i]) <= Stage(cmds[j])
                /\ (Stage(cmds[i]) < Stage(cmds[j]) /\ Stage(cmds[j]) <= 4)
                     => Succeeded(cmds[i])
  /\ cmds # <<>>
       => /\ SplitAxes(scan_axes) = <<second_scan_axis, first_scan_axis>>
          /\ first_scan_axis \in Axes /\ second_scan_axis \in Axes
  /\ \A j \in 1..Len(cmds) :
       /\ Stage(cmds[j]) \in 2..4
            => /\ j > 4
               /\ \A i \in 1..4 : Stage(cmds[i]) = 1
               /\ \A k \in 2..(Stage(cmds[j]) - 1) :
                    \E i \in 1..(j-1) : Stage(cmds[i]) = k
       /\ cmds[j].cmd = "set_up_finite_counter" => cmds[j].n = StepsScanLine
  /\ CountCmd(cmds, "set_up_finite_counter_clock") <= 1
  /\ CountCmd(cmds, "set_up_finite_counter") <= 1
\* the last call went through all stages
FullPath ==
  /\ Len(cmds) = 8
  /\ \A i \in 1..8 : Succeeded(cmds[i])
  /\ cmds[5].cmd = "set_up_finite_counter_clock"
  /\ cmds[6].cmd = "set_up_finite_counter"
  /\ cmds[7].cmd = "set_axis_mode_stepping" /\ cmds[7].axis = first_scan_axis
  /\ cmds[8].cmd = "set_axis_mode_stepping" /\ cmds[8].axis = second_scan_axis
  /\ state = "locked" /\ cnt_state = "locked" /\ stp_state = "locked"
  /\ clock_up /\ counter_up

AxisMissing ==
  LET ab == SplitAxes(scan_axes)
  IN Len(ab) = 2 /\ ~(ab[1] \in Axes /\ ab[2] \in Axes)
\* start_stepper returned -1, the module is not locked, and nothing was sent
\* to a device, locked, set up or switched by the call
RejectedUntouched ==
  /\ ret' = "-1" /\ state' = "idle"
  /\ cmds' = <<>> /\ emitted' = <<>>
  /\ UNCHANGED <<cnt_state, stp_state, clock_up, counter_up, counter_running,
                 axis_mode, dev_mode, pending, pc>>

StartedAt(cs) ==
  {i \in 1..Len(cs) : cs[i].cmd = "start_finite_counter" /\ cs[i].reply >= 0}

\* C18: in a line iteration that called _step_and_count, a successful
\* start_finite_counter is followed by exactly one stop_finite_counter, and
\* get_fixed_counts is requested only after a successful start.
C18_StartStopPaired ==
  (op = "_step_line" /\ HasCmd(cmds, "move_attocube"))
    => /\ \A i \in StartedAt(cmds) :
            Cardinality({j \in (i+1)..Len(cmds) : cmds[j].cmd = "stop_finite_counter"}) = 1
       /\ \A j \in 1..Len(cmds) :
            cmds[j].cmd = "get_fixed_counts" => \E i \in StartedAt(cmds) : i < j

\* C19: stopRequested is True only while the module is locked.
C19_StopFlagOnlyWhileLocked == stopRequested => state = "locked"

\* C20: a continue_stepper call on an unlocked module whose scan axes an
\* earlier start_stepper assigned either returns -1 with the module unlocked
\* (a check failed), or leaves the module locked with the line counter and
\* the scan axes as they were and a next line iteration signalled.
C20_ContinueResumes ==
  [][ (op' = "continue_stepper" /\ state = "idle" /\ first_scan_axis # "unset")
        => \/ ret' = "-1" /\ state' = "idle"
           \/ /\ ret' # "raise" /\ state' = "locked"
              /\ UNCHANGED <<step_counter, first_scan_axis, second_scan_axis>>
              /\ emitted' # <<>> /\ pending' # <<>> ]_vars

\* C21: after get_stepper_frequency or get_stepper_amplitude for one axis,
\* _step_freq and step_amplitude are still mappings over all axes and hold
\* for every other axis the value they held before.
C21_GettersKeepMapping ==
  [][ op' \in {"get_stepper_frequency", "get_stepper_amplitude"}
        => /\ step_freq_kind' = "dict" /\ step_amplitude_kind' = "dict"
           /\ \A a \in Axes \ {cmds'[1].axis} :
                /\ step_freq'[a] = step_freq[a]
                /\ step_amplitude'[a] = step_amplitude[a] ]_vars

\* C22: a _step_line iteration delivered while the module is not locked
\* returns at once: it sends nothing to a device, signals no iteration, steps
\* no line, and leaves the line counter, stopRequested, the three lock states,
\* clock, counter, axis modes and tracked configuration as they were; only the
\* delivered call is gone from the queue.
C22_UnlockedIterationIdle ==
  [][ (op' = "_step_line" /\ pc = "idle" /\ state # "locked")
        => /\ cmds' = <<>> /\ emitted' = <<>>
           /\ ret' = "None" /\ pc' = "idle"
           /\ pending' = Tail(pending)
           /\ UNCHANGED <<step_counter, stopRequested, state, cnt_state, stp_state,
                          clock_up, counter_up, counter_running, axis_mode,
                          dev_mode, step_freq, step_amplitude, first_scan_axis,
                          second_scan_axis, current_pos>> ]_vars

\* C22 witness: an iteration was delivered to an unlocked module on which a
\* stop request had been left behind
C22_DeliveredUnlocked ==
  op = "_step_line" /\ state = "idle" /\ cmds = <<>> /\ ret = "None"
    /\ pc = "idle" /\ stopRequested

StepsDone(c) == IF c.reply < 0 THEN 0 ELSE IF c.dirn THEN c.n ELSE 0 - c.n

Grounded(cs, a) ==
  \E i \in 1..Len(cs) : cs[i].cmd = "set_axis_mode_ground" /\ cs[i].axis = a
\* a switch to stepping mode was refused in the last call
SteppingRefused(cs) ==
  \E i \in 1..Len(cs) : cs[i].cmd = "set_axis_mode_stepping" /\ cs[i].reply < 0

====
